---- MODULE Spec2Model ----
(***************************************************************************)
(* Session bootstrap, request routing and task streaming of the A2A        *)
(* multi-agent incident-response sample.                                   *)
(*                                                                         *)
(*   monitoring_strands_agent/main.py     capture_session_id, ping,        *)
(*                                        proxy_to_a2a                     *)
(*   monitoring_strands_agent/context.py  MonitoringAgentContext           *)
(*   web_search_openai_agents/agent_executor.py  WebSearchAgentExecutor    *)
(*                                                                         *)
(* Granularity of the monitoring agent: every statement that can block     *)
(* (taking the lock, a call to the memory service, the token exchange, the *)
(* gateway start, the tool listing, the downstream call) ends a step, and  *)
(* requests interleave between steps.  Statements between two such points  *)
(* run as one step.                                                        *)
(***************************************************************************)
EXTENDS Integers, Sequences, FiniteSets, TLC

\* ----------------------------------------------------------------- bounds
NumRequests == 2

\* ------------------------------------------------------------ value sets
None == "None"
NoneObj == [kind |-> "None"]

Requests == 1..NumRequests
SessionIds == {"A", "B"}
Tokens == {"t1"}
Paths == {"/ping", "/other"}

\* A request is a GET with or without the session id header and the workload
\* access token header.  Requests is the set of requests in flight at once:
\* a request that has been answered leaves, and its slot takes the next one.
\* The middleware never reads the path, so the path of a request is drawn
\* where it is first read: when the router dispatches the request, or when
\* the request is answered with an error.
NoHeaders == [sid |-> None, tok |-> None, path |-> None]
HeaderSets == [sid : SessionIds \cup {None}, tok : Tokens \cup {None},
               path : {None}]

VARIABLES
    cls,              \* MonitoringAgentContext: the class attributes
    ctxv,             \* MonitoringAgentContext: the ContextVars of each request
    lock_holder,      \* initialization_lock: the request holding it, or 0
    lock_waiters,     \* initialization_lock: the requests queued on it
    req,              \* the headers, method and path of each request
    pc,               \* where each request stands in capture_session_id
    local,            \* capture_session_id locals: monitoring_hooks,
                      \*   gateway_client, strands_agent of each request
    response,         \* what each request was answered
    servedBy,         \* the A2A server a request was forwarded to
    arrivedReady,     \* history: the request found the session READY at line 140
    calls,            \* history: how often each initialization step ran
    initRuns,         \* history: the session id of each initialization begun
    initFailed        \* history: an initialization has raised

monVars == <<cls, ctxv, lock_holder, lock_waiters, req, pc, local, response,
             servedBy, arrivedReady, calls, initRuns, initFailed>>

\* ------------------------------------------------ MonitoringAgentContext
ClsInit == [session_id |-> None, agent_identity_token |-> None,
            gateway_url |-> None, agent |-> NoneObj,
            gateway_client |-> NoneObj, a2a_server |-> NoneObj,
            monitoring_hooks |-> NoneObj]

CtxInit == [session_id |-> None, agent_identity_token |-> None,
            gateway_url |-> None, agent |-> NoneObj,
            gateway_client |-> NoneObj, a2a_server |-> NoneObj,
            monitoring_hooks |-> NoneObj]

\* A context is the pair of the class attributes and the ContextVars.
Mac == [cls |-> cls, ctx |-> ctxv]

get_session_id(m, r) ==
    IF m.cls.session_id # None THEN m.cls.session_id ELSE m.ctx[r].session_id

set_session_id_ctx_only(m, r, sid) ==
    [m EXCEPT !.ctx[r].session_id = sid]

set_session_id(m, r, sid) ==
    [m EXCEPT !.cls.session_id = sid, !.ctx[r].session_id = sid]

get_agent_identity_token(m, r) ==
    IF m.cls.agent_identity_token # None THEN m.cls.agent_identity_token
    ELSE m.ctx[r].agent_identity_token

set_agent_identity_token(m, r, token) ==
    [m EXCEPT !.cls.agent_identity_token = token,
              !.ctx[r].agent_identity_token = token]

get_gateway_url(m, r) ==
    IF m.cls.gateway_url # None THEN m.cls.gateway_url ELSE m.ctx[r].gateway_url

set_gateway_url(m, r, url) ==
    [m EXCEPT !.cls.gateway_url = url, !.ctx[r].gateway_url = url]

get_agent(m, r) ==
    IF m.cls.agent # NoneObj THEN m.cls.agent ELSE m.ctx[r].agent

set_agent(m, r, agent) ==
    [m EXCEPT !.cls.agent = agent, !.ctx[r].agent = agent]

get_gateway_client(m, r) ==
    IF m.cls.gateway_client # NoneObj THEN m.cls.gateway_client
    ELSE m.ctx[r].gateway_client

set_gateway_client(m, r, client) ==
    [m EXCEPT !.cls.gateway_client = client, !.ctx[r].gateway_client = client]

get_a2a_server(m, r) ==
    IF m.cls.a2a_server # NoneObj THEN m.cls.a2a_server ELSE m.ctx[r].a2a_server

set_a2a_server(m, r, server) ==
    [m EXCEPT !.cls.a2a_server = server, !.ctx[r].a2a_server = server]

get_monitoring_hooks(m, r) ==
    IF m.cls.monitoring_hooks # NoneObj THEN m.cls.monitoring_hooks
    ELSE m.ctx[r].monitoring_hooks

set_monitoring_hooks(m, r, hooks) ==
    [m EXCEPT !.cls.monitoring_hooks = hooks, !.ctx[r].monitoring_hooks = hooks]

\* The session state the registry is in: nothing recorded, a session id
\* recorded without an A2A server, or the A2A server built.
SessionState ==
    IF cls.a2a_server # NoneObj THEN "READY"
    ELSE IF cls.session_id # None THEN "INITIALIZING"
    ELSE "UNSEEN"

\* --------------------------------------------------- the executor's state
VARIABLES
    exec_agent,       \* WebSearchAgentExecutor._agent
    active_tasks,     \* WebSearchAgentExecutor._active_tasks
    epc,              \* where the execute call of each task stands
    cpc,              \* where the cancel call of each task stands
    einput,           \* the request context of the running execute call
    accumulated_text, \* _execute_streaming: accumulated_text
    stream_event,     \* _execute_streaming: the stream event being handled
    events,           \* the event queue: what was put on it for each task
    execLen,          \* history: the length of events when execute began
    preCancelled,     \* history: a finished cancel had cleared the flag
                      \*   when execute marked the task active
    startLen,         \* history: the length of events when streaming began
    yielded,          \* history: how many events the stream has yielded
    streamed,         \* history: the non-empty text deltas it has yielded
    flagCleared,      \* history: cancel cleared the flag during this execute
    emittedAtClear,   \* history: the length of events when it did
    outcome,          \* how the last execute call of each task ended
    executions,       \* history: how many execute calls each task has had
    cancels           \* history: how many cancel calls each task has had

execVars == <<exec_agent, active_tasks, epc, cpc, einput, accumulated_text,
              stream_event, events, execLen, preCancelled, startLen, yielded, streamed, flagCleared,
              emittedAtClear, outcome, executions, cancels>>

\* ------------------------------------------- the memory hooks and tools
VARIABLES
    namespaces,       \* self.namespaces: the (type, namespace) pairs in dict
                      \*   order, or None before the constructor has run
    messages,         \* event.agent.messages: the transcript of the agent
    system_prompt,    \* event.agent.system_prompt
    last_call         \* history: the last hook or tool call, the calls it
                      \*   made to the memory client and how it ended

memVars == <<namespaces, messages, system_prompt, last_call>>

\* ----------------------------------------------- the host agent's state
VARIABLES
    root_agent,       \* main.py: the global root_agent
    hpc,              \* where each invocation of call_agent stands
    hreq,             \* the session id and payload of each invocation
    hlocal,           \* get_agent_and_card: the root agent being resolved
    hrunner,          \* call_agent: the root agent the Runner was built over
    hout,             \* what each invocation has yielded
    hresult,          \* how each invocation ended
    builds            \* history: how many root agents were built

hostVars == <<root_agent, hpc, hreq, hlocal, hrunner, hout, hresult, builds>>

vars == <<monVars, execVars, memVars, hostVars>>

\* ------------------------------------------------- capture_session_id
NoLocals == [monitoring_hooks |-> NoneObj, gateway_client |-> NoneObj,
             strands_agent |-> NoneObj, a2a_server |-> NoneObj]

InitMon ==
    /\ cls = ClsInit
    /\ ctxv = [r \in Requests |-> CtxInit]
    /\ lock_holder = 0
    /\ lock_waiters = <<>>
    /\ req = [r \in Requests |-> NoHeaders]
    /\ pc = [r \in Requests |-> "idle"]
    /\ local = [r \in Requests |-> NoLocals]
    /\ response = [r \in Requests |-> None]
    /\ servedBy = [r \in Requests |-> NoneObj]
    /\ arrivedReady = [r \in Requests |-> FALSE]
    /\ calls = [hooks |-> 0, exchange |-> 0, start |-> 0, tools |-> 0,
                agent |-> 0, server |-> 0]
    /\ initRuns = <<>>
    /\ initFailed = FALSE

\* line 146: if session_id and not current_session_id
InitNeededAlways(session_id, current_session_id) ==
    session_id # None

InitNeeded(session_id, current_session_id) ==
    session_id # None /\ current_session_id = None

\* line 149: the double check after the lock is taken
DoubleCheckSkipped(m, r) ==
    FALSE

DoubleCheckKeyed(m, r) ==
    get_session_id(m, r) = req[r].sid

DoubleCheck(m, r) ==
    get_session_id(m, r) # None

\* leaving "async with initialization_lock": the lock passes to the request
\* that has waited longest, or becomes free
ReleaseLock(r, nextpc) ==
    IF lock_waiters = <<>>
    THEN /\ lock_holder' = 0
         /\ lock_waiters' = <<>>
         /\ pc' = [pc EXCEPT ![r] = nextpc]
    ELSE /\ lock_holder' = Head(lock_waiters)
         /\ lock_waiters' = Tail(lock_waiters)
         /\ pc' = [pc EXCEPT ![r] = nextpc, ![Head(lock_waiters)] = "locked"]

\* lines 129-146: the token header is captured, the session id header read
\* and the recorded session id consulted
Arrive(r) ==
    /\ pc[r] = "idle"
    /\ \E h \in HeaderSets :
         LET m1 == IF h.tok # None
                   THEN set_agent_identity_token(Mac, r, h.tok) ELSE Mac
             current_session_id == get_session_id(m1, r)
         IN /\ req' = [req EXCEPT ![r] = h]
            /\ cls' = m1.cls
            /\ ctxv' = m1.ctx
            /\ arrivedReady' = [arrivedReady EXCEPT ![r] = (SessionState = "READY")]
            /\ pc' = [pc EXCEPT ![r] =
                        IF InitNeeded(h.sid, current_session_id)
                        THEN "acquire" ELSE "call_next"]
    /\ UNCHANGED <<lock_holder, lock_waiters, local, response, servedBy,
                   calls, initRuns, initFailed>>
    /\ UNCHANGED <<execVars, memVars, hostVars>>

\* line 147: async with initialization_lock
Acquire(r) ==
    /\ pc[r] = "acquire"
    /\ IF lock_holder = 0 /\ lock_waiters = <<>>
       THEN /\ lock_holder' = r
            /\ pc' = [pc EXCEPT ![r] = "locked"]
            /\ UNCHANGED lock_waiters
       ELSE /\ lock_waiters' = Append(lock_waiters, r)
            /\ pc' = [pc EXCEPT ![r] = "wait"]
            /\ UNCHANGED lock_holder
    /\ UNCHANGED <<cls, ctxv, req, local, response, servedBy, arrivedReady,
                   calls, initRuns, initFailed>>
    /\ UNCHANGED <<execVars, memVars, hostVars>>

\* lines 149-151: the session id is recorded already; the request goes
\* downstream inside the "async with" block
DoubleCheckHit(r) ==
    /\ pc[r] = "locked"
    /\ lock_holder = r
    /\ DoubleCheck(Mac, r)
    /\ pc' = [pc EXCEPT ![r] = "call_next"]
    /\ UNCHANGED <<cls, ctxv, lock_holder, lock_waiters, req, local, response,
                   servedBy, arrivedReady, calls, initRuns, initFailed>>
    /\ UNCHANGED <<execVars, memVars, hostVars>>

\* lines 149-156: no session id recorded; this request records its own
BeginInit(r) ==
    /\ pc[r] = "locked"
    /\ lock_holder = r
    /\ ~DoubleCheck(Mac, r)
    /\ LET m1 == set_session_id(Mac, r, req[r].sid)
       IN cls' = m1.cls /\ ctxv' = m1.ctx
    /\ initRuns' = Append(initRuns, req[r].sid)
    /\ pc' = [pc EXCEPT ![r] = "hooks"]
    /\ UNCHANGED <<lock_holder, lock_waiters, req, local, response, servedBy,
                   arrivedReady, calls, initFailed>>
    /\ UNCHANGED <<execVars, memVars, hostVars>>

\* lines 159-166: MonitoringMemoryHooks(session_id=session_id)
BuildHooks(r) ==
    /\ pc[r] = "hooks"
    /\ LET monitoring_hooks == [kind |-> "hooks", session_id |-> req[r].sid,
                                serial |-> calls.hooks + 1]
           m1 == set_monitoring_hooks(Mac, r, monitoring_hooks)
       IN /\ cls' = m1.cls /\ ctxv' = m1.ctx
          /\ local' = [local EXCEPT ![r].monitoring_hooks = monitoring_hooks]
    /\ calls' = [calls EXCEPT !.hooks = @ + 1]
    /\ pc' = [pc EXCEPT ![r] = "gateway"]
    /\ UNCHANGED <<lock_holder, lock_waiters, req, response, servedBy,
                   arrivedReady, initRuns, initFailed>>
    /\ UNCHANGED <<execVars, memVars, hostVars>>

\* lines 73-98 called from line 170: the identity token is exchanged for the
\* gateway access token and the MCP client is built around it
create_gateway_client_unauthenticated(r) ==
    /\ pc[r] = "gateway"
    /\ LET agent_identity_token == get_agent_identity_token(Mac, r)
           m1 == IF get_gateway_url(Mac, r) = None
                 THEN set_gateway_url(Mac, r, "url") ELSE Mac
       IN /\ cls' = m1.cls /\ ctxv' = m1.ctx
          /\ local' = [local EXCEPT ![r].gateway_client =
                         [kind |-> "gw", workload_token |-> agent_identity_token,
                          bearer |-> <<"accessToken", agent_identity_token>>,
                          serial |-> calls.exchange + 1]]
    /\ calls' = [calls EXCEPT !.exchange = @ + 1]
    /\ pc' = [pc EXCEPT ![r] = "start"]
    /\ UNCHANGED <<lock_holder, lock_waiters, req, response, servedBy,
                   arrivedReady, initRuns, initFailed>>
    /\ UNCHANGED <<execVars, memVars, hostVars>>

create_gateway_client(r) ==
    /\ pc[r] = "gateway"
    /\ get_agent_identity_token(Mac, r) # None
    /\ LET agent_identity_token == get_agent_identity_token(Mac, r)
           m1 == IF get_gateway_url(Mac, r) = None
                 THEN set_gateway_url(Mac, r, "url") ELSE Mac
       IN /\ cls' = m1.cls /\ ctxv' = m1.ctx
          /\ local' = [local EXCEPT ![r].gateway_client =
                         [kind |-> "gw", workload_token |-> agent_identity_token,
                          bearer |-> <<"accessToken", agent_identity_token>>,
                          serial |-> calls.exchange + 1]]
    /\ calls' = [calls EXCEPT !.exchange = @ + 1]
    /\ pc' = [pc EXCEPT ![r] = "start"]
    /\ UNCHANGED <<lock_holder, lock_waiters, req, response, servedBy,
                   arrivedReady, initRuns, initFailed>>
    /\ UNCHANGED <<execVars, memVars, hostVars>>

\* lines 171-173: gateway_client.start(), set_gateway_client
StartGateway(r) ==
    /\ pc[r] = "start"
    /\ LET m1 == set_gateway_client(Mac, r, local[r].gateway_client)
       IN cls' = m1.cls /\ ctxv' = m1.ctx
    /\ calls' = [calls EXCEPT !.start = @ + 1]
    /\ pc' = [pc EXCEPT ![r] = "tools"]
    /\ UNCHANGED <<lock_holder, lock_waiters, req, local, response, servedBy,
                   arrivedReady, initRuns, initFailed>>
    /\ UNCHANGED <<execVars, memVars, hostVars>>

\* lines 176-177: gateway_client.list_tools_sync()
ListTools(r) ==
    /\ pc[r] = "tools"
    /\ calls' = [calls EXCEPT !.tools = @ + 1]
    /\ pc' = [pc EXCEPT ![r] = "agent"]
    /\ UNCHANGED <<cls, ctxv, lock_holder, lock_waiters, req, local, response,
                   servedBy, arrivedReady, initRuns, initFailed>>
    /\ UNCHANGED <<execVars, memVars, hostVars>>

\* lines 180-191: Agent(hooks=[monitoring_hooks]), set_agent
BuildAgent(r) ==
    /\ pc[r] = "agent"
    /\ LET strands_agent == [kind |-> "agent",
                             hooks |-> local[r].monitoring_hooks,
                             gateway_client |-> local[r].gateway_client,
                             serial |-> calls.agent + 1]
           m1 == set_agent(Mac, r, strands_agent)
       IN /\ cls' = m1.cls /\ ctxv' = m1.ctx
          /\ local' = [local EXCEPT ![r].strands_agent = strands_agent]
    /\ calls' = [calls EXCEPT !.agent = @ + 1]
    /\ pc' = [pc EXCEPT ![r] = "server"]
    /\ UNCHANGED <<lock_holder, lock_waiters, req, response, servedBy,
                   arrivedReady, initRuns, initFailed>>
    /\ UNCHANGED <<execVars, memVars, hostVars>>

\* lines 194-203: A2AServer(agent=strands_agent), set_a2a_server; the
\* "async with" block ends and the lock is released
BuildServer(r) ==
    /\ pc[r] = "server"
    /\ LET a2a_server == [kind |-> "a2a", agent |-> local[r].strands_agent,
                          serial |-> calls.server + 1]
           m1 == set_a2a_server(Mac, r, a2a_server)
       IN /\ cls' = m1.cls /\ ctxv' = m1.ctx
          /\ local' = [local EXCEPT ![r].a2a_server = a2a_server]
    /\ calls' = [calls EXCEPT !.server = @ + 1]
    /\ ReleaseLock(r, "call_next")
    /\ UNCHANGED <<req, response, servedBy, arrivedReady, initRuns,
                   initFailed>>
    /\ UNCHANGED <<execVars, memVars, hostVars>>

\* lines 159-201: a step of the initialization raises.  Nothing catches it:
\* "async with" releases the lock and the request is answered with an error.
\* create_gateway_client raises by itself when no identity token is known
\* (lines 77-78).
InitSteps == {"hooks", "gateway", "start", "tools", "agent", "server"}

InitRaises(r) ==
    /\ pc[r] \in InitSteps
    /\ \E path \in Paths : req' = [req EXCEPT ![r].path = path]
    /\ response' = [response EXCEPT ![r] = "500"]
    /\ initFailed' = TRUE
    /\ ReleaseLock(r, "responding")
    /\ UNCHANGED <<cls, ctxv, local, servedBy, arrivedReady, calls,
                   initRuns>>
    /\ UNCHANGED <<execVars, memVars, hostVars>>

\* lines 209-215
ping ==
    "healthy"

\* lines 238-253
proxy_to_a2a_always_forward(m, r) ==
    [status |-> "forwarded", app |-> get_a2a_server(m, r)]

proxy_to_a2a(m, r) ==
    LET a2a_server == get_a2a_server(m, r)
    IN IF a2a_server = NoneObj
       THEN [status |-> "503", app |-> NoneObj]
       ELSE [status |-> "forwarded", app |-> a2a_server]

\* the routes in the order they are registered: GET /ping (line 209), then
\* the catch-all route for every method (lines 234-237)
IsPing(h) == h.path = "/ping"

\* lines 150 and 205: response = await call_next(request)
CallNext(r) ==
    /\ pc[r] = "call_next"
    /\ \E path \in Paths :
         /\ req' = [req EXCEPT ![r].path = path]
         /\ IF IsPing([req[r] EXCEPT !.path = path])
            THEN /\ response' = [response EXCEPT ![r] = ping]
                 /\ UNCHANGED servedBy
            ELSE LET res == proxy_to_a2a(Mac, r)
                 IN /\ response' = [response EXCEPT ![r] = res.status]
                    /\ servedBy' = [servedBy EXCEPT ![r] = res.app]
    /\ pc' = [pc EXCEPT ![r] = "responding"]
    /\ UNCHANGED <<cls, ctxv, lock_holder, lock_waiters, local,
                   arrivedReady, calls, initRuns, initFailed>>
    /\ UNCHANGED <<execVars, memVars, hostVars>>

\* lines 151 and 206: return response; the request that went downstream
\* inside the "async with" block releases the lock here.  The request is
\* over: its ContextVars and locals go with it.
Return(r) ==
    /\ pc[r] = "responding"
    /\ IF lock_holder = r
       THEN ReleaseLock(r, "idle")
       ELSE /\ pc' = [pc EXCEPT ![r] = "idle"]
            /\ UNCHANGED <<lock_holder, lock_waiters>>
    /\ req' = [req EXCEPT ![r] = NoHeaders]
    /\ ctxv' = [ctxv EXCEPT ![r] = CtxInit]
    /\ local' = [local EXCEPT ![r] = NoLocals]
    /\ response' = [response EXCEPT ![r] = None]
    /\ servedBy' = [servedBy EXCEPT ![r] = NoneObj]
    /\ arrivedReady' = [arrivedReady EXCEPT ![r] = FALSE]
    /\ UNCHANGED <<cls, calls, initRuns, initFailed>>
    /\ UNCHANGED <<execVars, memVars, hostVars>>

NextMon ==
    \E r \in Requests :
         \/ Arrive(r)
         \/ Acquire(r)
         \/ DoubleCheckHit(r)
         \/ BeginInit(r)
         \/ BuildHooks(r)
         \/ create_gateway_client(r)
         \/ StartGateway(r)
         \/ ListTools(r)
         \/ BuildAgent(r)
         \/ BuildServer(r)
         \/ InitRaises(r)
         \/ CallNext(r)
         \/ Return(r)


\* ------------------------------------------------ WebSearchAgentExecutor
MaxExecutions == 1
MaxCancels == 1
MaxStream == 2

Tasks == {"task-1"}
Fragments == {"Hel", "lo"}

\* What _call_agent_stream yields: {"event": e} for every event of the run
\* (a text delta, possibly empty, or an event of another type), and
\* {"error": msg} once when the run raised; the generator ends after it.
StreamEvents ==
    [type : {"text"}, delta : Fragments \cup {""}]
      \cup {[type |-> "other", delta |-> ""], [type |-> "error", delta |-> ""]}

NoEvent == [type |-> "none", delta |-> ""]

Contexts == [has_session : BOOLEAN, has_task : BOOLEAN, has_message : BOOLEAN]

\* the events put on the event queue
TaskEvent == [kind |-> "task", state |-> "submitted", text |-> ""]
StatusEvent(state, text) == [kind |-> "status", state |-> state, text |-> text]
ArtifactEvent(text) == [kind |-> "artifact", state |-> "", text |-> text]

TerminalStates == {"completed", "failed", "canceled"}

InitExec ==
    /\ exec_agent = None
    /\ active_tasks = [t \in {} |-> FALSE]
    /\ epc = [t \in Tasks |-> "idle"]
    /\ cpc = [t \in Tasks |-> "idle"]
    /\ einput = [t \in Tasks |->
                   [has_session |-> FALSE, has_task |-> FALSE,
                    has_message |-> FALSE]]
    /\ accumulated_text = [t \in Tasks |-> ""]
    /\ stream_event = [t \in Tasks |-> NoEvent]
    /\ events = [t \in Tasks |-> <<>>]
    /\ execLen = [t \in Tasks |-> 0]
    /\ preCancelled = [t \in Tasks |-> FALSE]
    /\ startLen = [t \in Tasks |-> 0]
    /\ yielded = [t \in Tasks |-> 0]
    /\ streamed = [t \in Tasks |-> <<>>]
    /\ flagCleared = [t \in Tasks |-> FALSE]
    /\ emittedAtClear = [t \in Tasks |-> 0]
    /\ outcome = [t \in Tasks |-> None]
    /\ executions = [t \in Tasks |-> 0]
    /\ cancels = [t \in Tasks |-> 0]

\* self._active_tasks.get(task_id, False)
ActiveGet(tbl, t) == IF t \in DOMAIN tbl THEN tbl[t] ELSE FALSE

\* self._active_tasks[task_id] = v
ActiveSet(tbl, t, v) ==
    [x \in DOMAIN tbl \cup {t} |-> IF x = t THEN v ELSE tbl[x]]

\* self._active_tasks.pop(task_id, None)
ActivePop(tbl, t) == [x \in DOMAIN tbl \ {t} |-> tbl[x]]

Emit(t, e) == events' = [events EXCEPT ![t] = Append(@, e)]

\* lines 110-131: the session id is read from the headers; without one the
\* call raises InvalidParamsError; a request without a current task gets a
\* new task, which is put on the event queue
ExecuteStart(t) ==
    /\ epc[t] = "idle"
    /\ executions[t] < MaxExecutions
    /\ \E c \in Contexts :
         /\ einput' = [einput EXCEPT ![t] = c]
         /\ IF ~c.has_session
            THEN /\ outcome' = [outcome EXCEPT ![t] = "InvalidParamsError"]
                 /\ UNCHANGED <<epc, events>>
            ELSE /\ outcome' = [outcome EXCEPT ![t] = None]
                 /\ epc' = [epc EXCEPT ![t] = "prepare"]
                 /\ IF c.has_task THEN UNCHANGED events ELSE Emit(t, TaskEvent)
    /\ executions' = [executions EXCEPT ![t] = @ + 1]
    /\ accumulated_text' = [accumulated_text EXCEPT ![t] = ""]
    /\ execLen' = [execLen EXCEPT ![t] = Len(events[t])]
    /\ preCancelled' = [preCancelled EXCEPT ![t] = FALSE]
    /\ startLen' = [startLen EXCEPT ![t] = 0]
    /\ yielded' = [yielded EXCEPT ![t] = 0]
    /\ streamed' = [streamed EXCEPT ![t] = <<>>]
    /\ flagCleared' = [flagCleared EXCEPT ![t] = FALSE]
    /\ emittedAtClear' = [emittedAtClear EXCEPT ![t] = 0]
    /\ stream_event' = [stream_event EXCEPT ![t] = NoEvent]
    /\ UNCHANGED <<exec_agent, active_tasks, cpc, cancels>>
    /\ UNCHANGED <<monVars, memVars, hostVars>>

\* lines 134-149: the user input is read (none: InvalidParamsError, and the
\* finally block pops the task), the agent is created on first use and the
\* task is marked active
ExecutePrepare(t) ==
    /\ epc[t] = "prepare"
    /\ IF ~einput[t].has_message
       THEN /\ outcome' = [outcome EXCEPT ![t] = "InvalidParamsError"]
            /\ active_tasks' = ActivePop(active_tasks, t)
            /\ epc' = [epc EXCEPT ![t] = "idle"]
            /\ UNCHANGED exec_agent
       ELSE /\ exec_agent' = IF exec_agent = None THEN "agent" ELSE exec_agent
            /\ active_tasks' = ActiveSet(active_tasks, t, TRUE)
            /\ epc' = [epc EXCEPT ![t] = "stream"]
            /\ UNCHANGED outcome
    /\ startLen' = [startLen EXCEPT ![t] = Len(events[t])]
    /\ preCancelled' = [preCancelled EXCEPT ![t] =
                           /\ einput[t].has_message
                           /\ t \in DOMAIN active_tasks
                           /\ ~active_tasks[t]
                           /\ cpc[t] = "idle"]
    /\ UNCHANGED execLen
    /\ UNCHANGED <<cpc, einput, accumulated_text, stream_event, events,
                   yielded, streamed, flagCleared, emittedAtClear, executions,
                   cancels>>
    /\ UNCHANGED <<monVars, memVars, hostVars>>

\* lines 34-40 called from line 146: create_agent raises on first use; execute
\* wraps the exception into InternalError and its finally block pops the task
CreateAgentRaises(t) ==
    /\ epc[t] = "prepare"
    /\ einput[t].has_message
    /\ exec_agent = None
    /\ outcome' = [outcome EXCEPT ![t] = "InternalError"]
    /\ active_tasks' = ActivePop(active_tasks, t)
    /\ epc' = [epc EXCEPT ![t] = "idle"]
    /\ UNCHANGED <<execLen, preCancelled>>
    /\ UNCHANGED <<exec_agent, cpc, einput, accumulated_text, stream_event,
                   events, startLen, yielded, streamed, flagCleared,
                   emittedAtClear, executions, cancels>>
    /\ UNCHANGED <<monVars, memVars, hostVars>>

\* line 49: the stream yields its next event
StreamYield(t) ==
    /\ epc[t] = "stream"
    /\ yielded[t] < MaxStream
    /\ \E e \in StreamEvents :
         /\ stream_event' = [stream_event EXCEPT ![t] = e]
         /\ streamed' = [streamed EXCEPT ![t] =
                           IF e.type = "text" /\ e.delta # ""
                           THEN Append(@, e.delta) ELSE @]
    /\ yielded' = [yielded EXCEPT ![t] = @ + 1]
    /\ epc' = [epc EXCEPT ![t] = "handle"]
    /\ UNCHANGED <<execLen, preCancelled>>
    /\ UNCHANGED <<exec_agent, active_tasks, cpc, einput, accumulated_text,
                   events, startLen, flagCleared, emittedAtClear, outcome,
                   executions, cancels>>
    /\ UNCHANGED <<monVars, memVars, hostVars>>

\* line 51: if not self._active_tasks.get(task_id, False)
CancelSeen(tbl, t) ==
    ~ActiveGet(tbl, t)

\* line 73: accumulated_text += text_chunk
AccumulateLast(acc, chunk) ==
    chunk

Accumulate(acc, chunk) ==
    acc \o chunk

\* lines 50-87, the loop body for one stream event: return when the task is
\* no longer active, raise on an error event, and for a non-empty text delta
\* accumulate it and send a working update with the accumulated text.  An
\* exception leaves through execute, which wraps it into InternalError; the
\* finally block of execute (line 165) pops the task on every way out.
HandleEvent(t) ==
    /\ epc[t] = "handle"
    /\ LET e == stream_event[t]
       IN IF CancelSeen(active_tasks, t)
          THEN /\ outcome' = [outcome EXCEPT ![t] = "returned"]
               /\ active_tasks' = ActivePop(active_tasks, t)
               /\ epc' = [epc EXCEPT ![t] = "idle"]
               /\ UNCHANGED <<accumulated_text, events>>
          ELSE IF e.type = "error"
          THEN /\ outcome' = [outcome EXCEPT ![t] = "InternalError"]
               /\ active_tasks' = ActivePop(active_tasks, t)
               /\ epc' = [epc EXCEPT ![t] = "idle"]
               /\ UNCHANGED <<accumulated_text, events>>
          ELSE IF e.type = "text" /\ e.delta # ""
          THEN LET text == Accumulate(accumulated_text[t], e.delta)
               IN /\ accumulated_text' = [accumulated_text EXCEPT ![t] = text]
                  /\ Emit(t, StatusEvent("working", text))
               /\ epc' = [epc EXCEPT ![t] = "stream"]
               /\ UNCHANGED <<active_tasks, outcome>>
          ELSE /\ epc' = [epc EXCEPT ![t] = "stream"]
               /\ UNCHANGED <<accumulated_text, events, active_tasks, outcome>>
    /\ stream_event' = [stream_event EXCEPT ![t] = NoEvent]
    /\ UNCHANGED <<execLen, preCancelled>>
    /\ UNCHANGED <<exec_agent, cpc, einput, startLen, yielded, streamed,
                   flagCleared, emittedAtClear, executions, cancels>>
    /\ UNCHANGED <<monVars, memVars, hostVars>>

\* lines 89-94: the stream has ended; the accumulated text, when there is
\* any, is added as the artifact
StreamEnd(t) ==
    /\ epc[t] = "stream"
    /\ IF accumulated_text[t] # ""
       THEN Emit(t, ArtifactEvent(accumulated_text[t]))
       ELSE UNCHANGED events
    /\ epc' = [epc EXCEPT ![t] = "complete"]
    /\ UNCHANGED <<execLen, preCancelled>>
    /\ UNCHANGED <<exec_agent, active_tasks, cpc, einput, accumulated_text,
                   stream_event, startLen, yielded, streamed, flagCleared,
                   emittedAtClear, outcome, executions, cancels>>
    /\ UNCHANGED <<monVars, memVars, hostVars>>

\* line 96 and lines 155-165: updater.complete(); execute returns and its
\* finally block pops the task
Complete(t) ==
    /\ epc[t] = "complete"
    /\ Emit(t, StatusEvent("completed", ""))
    /\ outcome' = [outcome EXCEPT ![t] = "ok"]
    /\ active_tasks' = ActivePop(active_tasks, t)
    /\ epc' = [epc EXCEPT ![t] = "idle"]
    /\ UNCHANGED <<execLen, preCancelled>>
    /\ UNCHANGED <<exec_agent, cpc, einput, accumulated_text, stream_event,
                   startLen, yielded, streamed, flagCleared, emittedAtClear,
                   executions, cancels>>
    /\ UNCHANGED <<monVars, memVars, hostVars>>

\* the stream of the execute call is open: it has not ended
Streaming(t) == epc[t] \in {"stream", "handle"}

\* lines 175-188: the active flag of the task is cleared; with a task object
\* in the context the cancelled status follows, without one only a warning
CancelStart(t) ==
    /\ cpc[t] = "idle"
    /\ cancels[t] < MaxCancels
    /\ cancels' = [cancels EXCEPT ![t] = @ + 1]
    /\ active_tasks' = ActiveSet(active_tasks, t, FALSE)
    /\ \E has_task \in BOOLEAN :
         cpc' = [cpc EXCEPT ![t] = IF has_task THEN "emit" ELSE "idle"]
    /\ IF Streaming(t) /\ ~flagCleared[t]
       THEN /\ flagCleared' = [flagCleared EXCEPT ![t] = TRUE]
            /\ emittedAtClear' = [emittedAtClear EXCEPT ![t] = Len(events[t])]
       ELSE UNCHANGED <<flagCleared, emittedAtClear>>
    /\ UNCHANGED <<execLen, preCancelled>>
    /\ UNCHANGED <<exec_agent, epc, einput, accumulated_text, stream_event,
                   events, startLen, yielded, streamed, outcome, executions>>
    /\ UNCHANGED <<monVars, memVars, hostVars>>

\* line 185: await updater.cancel()
CancelEmit(t) ==
    /\ cpc[t] = "emit"
    /\ Emit(t, StatusEvent("canceled", ""))
    /\ cpc' = [cpc EXCEPT ![t] = "idle"]
    /\ UNCHANGED <<execLen, preCancelled>>
    /\ UNCHANGED <<exec_agent, active_tasks, epc, einput, accumulated_text,
                   stream_event, startLen, yielded, streamed, flagCleared,
                   emittedAtClear, outcome, executions, cancels>>
    /\ UNCHANGED <<monVars, memVars, hostVars>>

NextExec ==
    \E t \in Tasks :
         \/ ExecuteStart(t)
         \/ ExecutePrepare(t)
         \/ CreateAgentRaises(t)
         \/ StreamYield(t)
         \/ HandleEvent(t)
         \/ StreamEnd(t)
         \/ Complete(t)
         \/ CancelStart(t)
         \/ CancelEmit(t)

\* ------------------------------------------------- memory hooks and tools
\*   monitoring_strands_agent/memory_hook.py   MonitoringMemoryHooks
\*   web_search_openai_agents/memory_tool.py   AgentMemoryTools
MaxMessages == 4

StrategyTypes == {"UserPreference", "SemanticMemory"}
UnknownType == "Episodic"
Queries == {"cpu", "disk"}

\* what get_memory_strategies returns: the strategies of the memory, each
\* with its type and its first namespace
NamespaceOf(type) ==
    IF type = "UserPreference" THEN "/users/{actorId}/preferences"
    ELSE "/knowledge/{actorId}/semantics"

Strategy(type) == [type |-> type, namespace |-> NamespaceOf(type)]

StrategyLists ==
    {<<>>, <<Strategy("UserPreference")>>,
     <<Strategy("UserPreference"), Strategy("SemanticMemory")>>}

\* namespace.format(actorId=actor_id), actor_id = "Actor1"
Format(namespace) ==
    IF namespace = "/users/{actorId}/preferences"
    THEN "/users/Actor1/preferences"
    ELSE "/knowledge/Actor1/semantics"

\* context_type.upper()
Upper(type) ==
    IF type = "UserPreference" THEN "USERPREFERENCE"
    ELSE IF type = "SemanticMemory" THEN "SEMANTICMEMORY"
    ELSE "EPISODIC"

\* text.strip() on the texts the memory service returns
Strip(text) ==
    IF text = " " THEN "" ELSE IF text = " cpu high " THEN "cpu high" ELSE text

\* A call to the memory client raises or returns.  retrieve_memories returns
\* a memory whose text is blank, or one with a text.
ClientOutcomes == {"raise", "ok"}
RetrieveOutcomes == {"raise", "blank", "hit"}
TurnOutcomes == {"raise", "empty", "turns"}

Memories(o) == IF o = "hit" THEN <<" cpu high ">> ELSE <<" ">>

RecentTurns == << <<[role |-> "USER", text |-> "q0"],
                    [role |-> "ASSISTANT", text |-> "a0"]>>,
                  <<[role |-> "USER", text |-> "q9"],
                    [role |-> "ASSISTANT", text |-> "a9"]>> >>

\* get_last_k_turns(k=5)
LastK == 5

\* the messages of a transcript: a user text, a tool result, a user message
\* holding an image only, an assistant text, an assistant tool use
TranscriptMessages ==
    {[role |-> "user", kind |-> "text", text |-> "q1"],
     [role |-> "user", kind |-> "toolResult", text |-> ""],
     [role |-> "user", kind |-> "image", text |-> ""],
     [role |-> "assistant", kind |-> "text", text |-> "a1"],
     [role |-> "assistant", kind |-> "toolUse", text |-> ""]}

BasePrompt == "You are the monitoring agent."

NoCall == [op |-> "none", arg |-> None, retrievals |-> <<>>, found |-> 0,
           returned |-> <<>>, creates |-> <<>>, client_raised |-> FALSE, raised |-> FALSE,
           result |-> None]

InitMem ==
    /\ namespaces = None
    /\ messages = <<>>
    /\ system_prompt = BasePrompt
    /\ last_call = NoCall

\* if x: None and the empty string are false
Truthy(x) == x # None /\ x # ""

RECURSIVE Join(_, _)
Join(sep, ss) ==
    IF ss = <<>> THEN ""
    ELSE IF Len(ss) = 1 THEN ss[1]
    ELSE ss[1] \o sep \o Join(sep, Tail(ss))

\* the inner loop over the memories of one retrieval: the stripped texts
\* that are not empty, each behind the prefix
ContextItemsUnlabelled(prefix, memories) ==
    LET texts == [i \in DOMAIN memories |-> Strip(memories[i])]
    IN SelectSeq(texts, LAMBDA x : x # "")

ContextItems(prefix, memories) ==
    LET texts == [i \in DOMAIN memories |-> Strip(memories[i])]
        kept == SelectSeq(texts, LAMBDA x : x # "")
    IN [i \in DOMAIN kept |-> prefix \o kept[i]]

TypesOf(pairs) == {pairs[i].type : i \in DOMAIN pairs}

PairOf(pairs, type) ==
    pairs[CHOOSE i \in DOMAIN pairs : pairs[i].type = type]

NoRetrieval == [all_context |-> <<>>, retrievals |-> <<>>,
                returned |-> <<>>, client_raised |-> FALSE]

\* for context_type, namespace in namespaces.items(): retrieve_memories is
\* called for each namespace in turn; the first call that raises ends the loop
RECURSIVE RetrieveLoop(_, _, _, _, _)
RetrieveLoop(pairs, query, o, i, acc) ==
    IF i > Len(pairs) THEN acc
    ELSE LET called == [acc EXCEPT !.retrievals =
                           Append(@, [namespace |-> Format(pairs[i].namespace),
                                      query |-> query])]
         IN IF o[i] = "raise"
            THEN [called EXCEPT !.client_raised = TRUE]
            ELSE RetrieveLoop(pairs, query, o, i + 1,
                    [called EXCEPT
                       !.returned = Append(@, [type |-> pairs[i].type,
                                               memories |-> Memories(o[i])]),
                       !.all_context =
                        @ \o ContextItems("[" \o Upper(pairs[i].type) \o "] ",
                                          Memories(o[i]))])

\* ------------------------------------------------- MonitoringMemoryHooks
\* memory_hook.py lines 73-78: the context is put in front of the user text
InjectContextPartial(msgs, res) ==
    IF res.all_context = <<>> THEN msgs
    ELSE [msgs EXCEPT ![Len(msgs)].text =
             "Monitoring Context:\n" \o Join("\n", res.all_context)
                \o "\n\n" \o @]

InjectContext(msgs, res) ==
    IF res.client_raised \/ res.all_context = <<>> THEN msgs
    ELSE [msgs EXCEPT ![Len(msgs)].text =
             "Monitoring Context:\n" \o Join("\n", res.all_context)
                \o "\n\n" \o @]

\* memory_hook.py lines 38-84, the pre-turn hook on the transcript msgs whose
\* last message was just added.  Only a user message that is not a tool
\* result is looked at; its text is read outside the try block (line 45).
Hooks_retrieve_monitoring_context(msgs, pairs, o) ==
    LET last == msgs[Len(msgs)]
        call == [NoCall EXCEPT !.op = "pre", !.arg = last]
    IN IF ~(last.role = "user" /\ last.kind # "toolResult")
       THEN [messages |-> msgs, call |-> call]
       ELSE IF last.kind # "text"
       THEN [messages |-> msgs, call |-> [call EXCEPT !.raised = TRUE]]
       ELSE LET res == RetrieveLoop(pairs, last.text, o, 1, NoRetrieval)
            IN [messages |-> InjectContext(msgs, res),
                call |-> [call EXCEPT !.retrievals = res.retrievals,
                                      !.returned = res.returned,
                                      !.found = Len(res.all_context),
                                      !.client_raised = res.client_raised]]

\* memory_hook.py lines 95-104: the transcript is walked from its end; the
\* first assistant message gives the response, the first user message after
\* it that is not a tool result gives the query and ends the walk.  Reading
\* the text of a message that has none raises KeyError.
RECURSIVE SaveLoop(_, _, _)
SaveLoop(msgs, i, agent_response) ==
    IF i = 0
    THEN [user_query |-> None, agent_response |-> agent_response,
          raised |-> FALSE]
    ELSE LET msg == msgs[i]
         IN IF msg.role = "assistant" /\ ~Truthy(agent_response)
            THEN IF msg.kind = "text"
                 THEN SaveLoop(msgs, i - 1, msg.text)
                 ELSE [user_query |-> None, agent_response |-> agent_response,
                       raised |-> TRUE]
            ELSE IF msg.role = "user" /\ msg.kind # "toolResult"
            THEN IF msg.kind = "text"
                 THEN [user_query |-> msg.text,
                       agent_response |-> agent_response, raised |-> FALSE]
                 ELSE [user_query |-> None, agent_response |-> agent_response,
                       raised |-> TRUE]
            ELSE SaveLoop(msgs, i - 1, agent_response)

TurnSet(user_query, agent_response) ==
    <<[text |-> user_query, role |-> "USER"],
      [text |-> agent_response, role |-> "ASSISTANT"]>>

\* memory_hook.py lines 86-117, the post-turn hook; everything is inside the
\* try block
save_monitoring_interaction(msgs, o) ==
    LET call == [NoCall EXCEPT !.op = "post"]
    IN IF ~(Len(msgs) >= 2 /\ msgs[Len(msgs)].role = "assistant")
       THEN call
       ELSE LET r == SaveLoop(msgs, Len(msgs), None)
            IN IF r.raised
                  \/ ~(Truthy(r.user_query) /\ Truthy(r.agent_response))
               THEN call
               ELSE [call EXCEPT
                       !.creates = <<TurnSet(r.user_query, r.agent_response)>>,
                       !.client_raised = (o = "raise")]

\* memory_hook.py lines 132-139: "role: text" for every message of every turn
RECURSIVE TurnLines(_)
TurnLines(turns) ==
    IF turns = <<>> THEN <<>>
    ELSE [i \in DOMAIN Head(turns) |->
             Head(turns)[i].role \o ": " \o Head(turns)[i].text]
           \o TurnLines(Tail(turns))

\* memory_hook.py lines 119-145, the hook that runs when the agent has been
\* built: the last turns are appended to the system prompt
on_agent_initialized_replace(prompt, o) ==
    IF o = "turns"
    THEN "Recent conversation:\n" \o Join("\n", TurnLines(RecentTurns))
    ELSE prompt

on_agent_initialized(prompt, o) ==
    IF o = "turns"
    THEN prompt \o "\n\nRecent conversation:\n"
           \o Join("\n", TurnLines(RecentTurns))
    ELSE prompt

\* memory_hook.py lines 29-36 and 19-22: the constructor loads the namespace
\* map; a failure of get_memory_strategies leaves no hooks object
Hooks_init ==
    /\ namespaces = None
    /\ \E o \in ClientOutcomes :
         IF o = "raise"
         THEN /\ last_call' = [NoCall EXCEPT !.op = "hooks_new",
                                  !.client_raised = TRUE, !.raised = TRUE]
              /\ UNCHANGED namespaces
         ELSE /\ \E strategies \in StrategyLists : namespaces' = strategies
              /\ last_call' = [NoCall EXCEPT !.op = "hooks_new"]
    /\ UNCHANGED <<messages, system_prompt>>
    /\ UNCHANGED <<monVars, execVars, hostVars>>

\* AgentInitializedEvent: fired once, when the agent is built
AgentInitialized ==
    /\ namespaces # None
    /\ messages = <<>>
    /\ last_call.op = "hooks_new"
    /\ \E o \in TurnOutcomes :
         /\ system_prompt' = on_agent_initialized(system_prompt, o)
         /\ last_call' = [NoCall EXCEPT
                             !.op = "init", !.arg = LastK,
                             !.found = IF o = "turns" THEN Len(RecentTurns)
                                       ELSE 0,
                             !.client_raised = (o = "raise")]
    /\ UNCHANGED <<namespaces, messages>>
    /\ UNCHANGED <<monVars, execVars, hostVars>>

\* MessageAddedEvent: a message is added to the transcript and the pre-turn
\* hook runs on it
MessageAdded ==
    /\ namespaces # None
    /\ Len(messages) < MaxMessages
    /\ \E m \in TranscriptMessages :
         \E o \in [DOMAIN namespaces -> RetrieveOutcomes] :
            LET res == Hooks_retrieve_monitoring_context(
                           Append(messages, m), namespaces, o)
            IN /\ messages' = res.messages
               /\ last_call' = res.call
    /\ UNCHANGED <<namespaces, system_prompt>>
    /\ UNCHANGED <<monVars, execVars, hostVars>>

\* AfterInvocationEvent: the post-turn hook runs on the transcript
AfterInvocation ==
    /\ namespaces # None
    /\ \E o \in ClientOutcomes :
         last_call' = save_monitoring_interaction(messages, o)
    /\ UNCHANGED <<namespaces, messages, system_prompt>>
    /\ UNCHANGED <<monVars, execVars, hostVars>>

NextHooks ==
    \/ Hooks_init
    \/ AgentInitialized
    \/ MessageAdded
    \/ AfterInvocation

\* ------------------------------------------------------ AgentMemoryTools
\* memory_tool.py lines 66-71: the namespaces a retrieval goes to
SearchNamespaces(pairs, context_type) ==
    IF Truthy(context_type) /\ context_type \in TypesOf(pairs)
    THEN <<PairOf(pairs, context_type)>>
    ELSE pairs

\* memory_tool.py lines 49-101
Tools_retrieve_monitoring_context(pairs, query, context_type, o) ==
    LET res == RetrieveLoop(SearchNamespaces(pairs, context_type), query, o,
                            1, NoRetrieval)
    IN [NoCall EXCEPT
          !.op = "retrieve", !.arg = context_type,
          !.retrievals = res.retrievals,
          !.found = Len(res.all_context),
          !.client_raised = res.client_raised,
          !.result = IF res.client_raised
                     THEN "Error retrieving context: unavailable"
                     ELSE IF res.all_context # <<>>
                     THEN Join("\n", res.all_context)
                     ELSE "No relevant context found for the query."]

\* memory_tool.py lines 103-133
save_interaction_to_memory(user_message, assistant_response, o) ==
    [NoCall EXCEPT
       !.op = "save",
       !.creates = <<TurnSet(user_message, assistant_response)>>,
       !.client_raised = (o = "raise"),
       !.result = IF o = "raise"
                  THEN "Error saving interaction: unavailable"
                  ELSE "Interaction saved to memory successfully."]

\* memory_tool.py lines 135-171
get_recent_conversation_history(o) ==
    [NoCall EXCEPT
       !.op = "history",
       !.client_raised = (o = "raise"),
       !.result = IF o = "raise"
                  THEN "Error retrieving history: unavailable"
                  ELSE IF o = "turns"
                  THEN Join("\n", TurnLines(RecentTurns))
                  ELSE "No recent conversation history found."]

\* memory_tool.py lines 173-199
save_custom_memory(content, memory_type, o) ==
    [NoCall EXCEPT
       !.op = "custom", !.arg = memory_type,
       !.creates = << <<[text |-> content, role |-> "ASSISTANT"]>> >>,
       !.client_raised = (o = "raise"),
       !.result = IF o = "raise"
                  THEN "Error saving custom content: unavailable"
                  ELSE "Custom content saved to " \o memory_type
                          \o " successfully."]

RECURSIVE KeyList(_)
KeyList(pairs) ==
    IF pairs = <<>> THEN <<>> ELSE <<Head(pairs).type>> \o KeyList(Tail(pairs))

\* memory_tool.py lines 201-247
search_memory_by_namespace(pairs, query, namespace_type, o) ==
    LET call == [NoCall EXCEPT !.op = "search", !.arg = namespace_type]
    IN IF namespace_type \notin TypesOf(pairs)
       THEN [call EXCEPT !.result =
                "Invalid namespace type. Available types: "
                   \o Join(", ", KeyList(pairs))]
       ELSE LET namespace == PairOf(pairs, namespace_type).namespace
                called == [call EXCEPT !.retrievals =
                              <<[namespace |-> Format(namespace),
                                 query |-> query]>>]
                results == ContextItems("", Memories(o))
            IN IF o = "raise"
               THEN [called EXCEPT !.client_raised = TRUE,
                        !.result = "Error searching memory: unavailable"]
               ELSE IF results # <<>>
               THEN [called EXCEPT !.found = Len(results), !.result =
                        "Found " \o ToString(Len(results)) \o " results in "
                           \o namespace_type \o ":\n"
                           \o Join("\n---\n", results)]
               ELSE [called EXCEPT !.result =
                        "No results found in " \o namespace_type
                           \o " for query: " \o query]

\* memory_tool.py lines 16-37: the constructor loads the namespace map; when
\* get_memory_strategies raises the map is empty
Tools_init ==
    /\ namespaces = None
    /\ \E o \in ClientOutcomes :
         IF o = "raise"
         THEN /\ namespaces' = <<>>
              /\ last_call' = [NoCall EXCEPT !.op = "tools_new",
                                             !.client_raised = TRUE]
         ELSE /\ \E strategies \in StrategyLists : namespaces' = strategies
              /\ last_call' = [NoCall EXCEPT !.op = "tools_new"]
    /\ UNCHANGED <<messages, system_prompt>>
    /\ UNCHANGED <<monVars, execVars, hostVars>>

ContextTypes == StrategyTypes \cup {UnknownType, None}

ToolRetrieve ==
    /\ namespaces # None
    /\ \E query \in Queries, context_type \in ContextTypes :
         \E o \in [1..2 -> RetrieveOutcomes] :
            last_call' = Tools_retrieve_monitoring_context(
                             namespaces, query, context_type, o)
    /\ UNCHANGED <<namespaces, messages, system_prompt>>
    /\ UNCHANGED <<monVars, execVars, hostVars>>

ToolSave ==
    /\ namespaces # None
    /\ \E user_message \in {"q1", "q2"}, assistant_response \in {"a1", "a2"} :
         \E o \in ClientOutcomes :
            last_call' = save_interaction_to_memory(
                             user_message, assistant_response, o)
    /\ UNCHANGED <<namespaces, messages, system_prompt>>
    /\ UNCHANGED <<monVars, execVars, hostVars>>

ToolHistory ==
    /\ namespaces # None
    /\ \E o \in TurnOutcomes :
         last_call' = get_recent_conversation_history(o)
    /\ UNCHANGED <<namespaces, messages, system_prompt>>
    /\ UNCHANGED <<monVars, execVars, hostVars>>

ToolSaveCustom ==
    /\ namespaces # None
    /\ \E content \in {"note", "memo"}, memory_type \in StrategyTypes :
         \E o \in ClientOutcomes :
            last_call' = save_custom_memory(content, memory_type, o)
    /\ UNCHANGED <<namespaces, messages, system_prompt>>
    /\ UNCHANGED <<monVars, execVars, hostVars>>

ToolSearch ==
    /\ namespaces # None
    /\ \E query \in Queries, namespace_type \in StrategyTypes \cup {UnknownType} :
         \E o \in RetrieveOutcomes :
            last_call' = search_memory_by_namespace(
                             namespaces, query, namespace_type, o)
    /\ UNCHANGED <<namespaces, messages, system_prompt>>
    /\ UNCHANGED <<monVars, execVars, hostVars>>

NextTools ==
    \/ Tools_init
    \/ ToolRetrieve
    \/ ToolSave
    \/ ToolHistory
    \/ ToolSaveCustom
    \/ ToolSearch

\* ---------------------------------------------------- host agent entrypoint
\*   host_adk_agent/main.py    call_agent
\*   host_adk_agent/agent.py   get_root_agent, get_agent_and_card
\* call_agent is an async generator: it is suspended at every await and at
\* every yield, and other invocations run in between.
MaxBuilds == 2
MaxRunEvents == 1

\* the invocations of call_agent in flight at once: an invocation that has
\* ended leaves, and its slot takes the next one
Invocations == {"i1", "i2"}
HostSessions == {"A", "B"}

\* an invocation: context.session_id, whether the payload has a prompt, and
\* (history) whether an earlier invocation had failed to initialize
NoInvocation == [session_id |-> None, prompt |-> FALSE, after_failure |-> FALSE]

InitHost ==
    /\ root_agent = NoneObj
    /\ hpc = [i \in Invocations |-> "idle"]
    /\ hreq = [i \in Invocations |-> NoInvocation]
    /\ hlocal = [i \in Invocations |-> NoneObj]
    /\ hrunner = [i \in Invocations |-> NoneObj]
    /\ hout = [i \in Invocations |-> <<>>]
    /\ hresult = [i \in Invocations |-> None]
    /\ builds = 0

\* agent.py lines 35-114: the client factory of a peer keeps the session id
\* it was created with and sends it as the session id header of every call
create_client_factory(provider_name, session_id) ==
    [provider_name |-> provider_name, session_id |-> session_id]

\* agent.py lines 117-173: the two remote agents, each with its client
\* factory, and the root agent over them
get_root_agent(session_id, serial) ==
    [kind |-> "root", serial |-> serial,
     monitor_agent |-> create_client_factory("monitor", session_id),
     websearch_agent |-> create_client_factory("websearch", session_id)]

InitFailed == \E i \in Invocations : hresult[i] = "init_raised"

\* main.py lines 30-52 and agent.py line 182: the session id is checked, and
\* when no root agent is set get_root_agent builds one (it raises when a
\* client factory cannot get its token); the invocation then waits for the
\* first agent card
HostStart(i) ==
    /\ hpc[i] = "idle"
    /\ \E session_id \in HostSessions \cup {None}, prompt \in BOOLEAN :
         /\ hreq' = [hreq EXCEPT ![i] =
                        [session_id |-> session_id, prompt |-> prompt,
                         after_failure |-> InitFailed]]
         /\ IF session_id = None
            THEN /\ hresult' = [hresult EXCEPT ![i] = "raised"]
                 /\ hpc' = [hpc EXCEPT ![i] = "ended"]
                 /\ UNCHANGED <<hlocal, builds>>
            ELSE IF root_agent # NoneObj
            THEN /\ hpc' = [hpc EXCEPT ![i] = "query"]
                 /\ UNCHANGED <<hlocal, hresult, builds>>
            ELSE /\ builds < MaxBuilds
                 /\ builds' = builds + 1
                 /\ \E ok \in BOOLEAN :
                      IF ok
                      THEN /\ hlocal' = [hlocal EXCEPT ![i] =
                                  get_root_agent(session_id, builds + 1)]
                           /\ hpc' = [hpc EXCEPT ![i] = "resolve1"]
                           /\ UNCHANGED hresult
                      ELSE /\ hresult' = [hresult EXCEPT ![i] = "init_raised"]
                           /\ hpc' = [hpc EXCEPT ![i] = "ended"]
                           /\ UNCHANGED hlocal
    /\ UNCHANGED <<root_agent, hrunner, hout>>
    /\ UNCHANGED <<monVars, execVars, memVars>>

\* agent.py lines 188-203, first sub-agent: await agent._ensure_resolved()
HostResolveFirst(i) ==
    /\ hpc[i] = "resolve1"
    /\ \E ok \in BOOLEAN :
         IF ok
         THEN /\ hpc' = [hpc EXCEPT ![i] = "resolve2"]
              /\ UNCHANGED hresult
         ELSE /\ hresult' = [hresult EXCEPT ![i] = "init_raised"]
              /\ hpc' = [hpc EXCEPT ![i] = "ended"]
    /\ UNCHANGED <<root_agent, hreq, hlocal, hrunner, hout, builds>>
    /\ UNCHANGED <<monVars, execVars, memVars>>

\* agent.py lines 188-210, second sub-agent, and main.py lines 52-62: when
\* the cards are resolved the global root_agent is assigned and the cards
\* are yielded; an exception is logged and raised again
HostResolveSecond_assign_first(i) ==
    /\ hpc[i] = "resolve2"
    /\ \E ok \in BOOLEAN :
         IF ok
         THEN /\ root_agent' = hlocal[i]
              /\ hout' = [hout EXCEPT ![i] = Append(@, [kind |-> "cards"])]
              /\ hpc' = [hpc EXCEPT ![i] = "query"]
              /\ UNCHANGED hresult
         ELSE /\ hresult' = [hresult EXCEPT ![i] = "init_raised"]
              /\ hpc' = [hpc EXCEPT ![i] = "ended"]
              /\ root_agent' = hlocal[i]
              /\ UNCHANGED hout
    /\ UNCHANGED <<hreq, hlocal, hrunner, builds>>
    /\ UNCHANGED <<monVars, execVars, memVars>>

HostResolveSecond(i) ==
    /\ hpc[i] = "resolve2"
    /\ \E ok \in BOOLEAN :
         IF ok
         THEN /\ root_agent' = hlocal[i]
              /\ hout' = [hout EXCEPT ![i] = Append(@, [kind |-> "cards"])]
              /\ hpc' = [hpc EXCEPT ![i] = "query"]
              /\ UNCHANGED hresult
         ELSE /\ hresult' = [hresult EXCEPT ![i] = "init_raised"]
              /\ hpc' = [hpc EXCEPT ![i] = "ended"]
              /\ UNCHANGED <<root_agent, hout>>
    /\ UNCHANGED <<hreq, hlocal, hrunner, builds>>
    /\ UNCHANGED <<monVars, execVars, memVars>>

\* main.py lines 64-82: the prompt is read (none: KeyError), the session is
\* looked up or created, and the Runner is built over the global root_agent
HostQuery(i) ==
    /\ hpc[i] = "query"
    /\ IF ~hreq[i].prompt
       THEN /\ hresult' = [hresult EXCEPT ![i] = "raised"]
            /\ hpc' = [hpc EXCEPT ![i] = "ended"]
            /\ UNCHANGED hrunner
       ELSE /\ hrunner' = [hrunner EXCEPT ![i] = root_agent]
            /\ hpc' = [hpc EXCEPT ![i] = "run"]
            /\ UNCHANGED hresult
    /\ UNCHANGED <<root_agent, hreq, hlocal, hout, builds>>
    /\ UNCHANGED <<monVars, execVars, memVars>>

RunEvents(i) == Len(SelectSeq(hout[i], LAMBDA e : e.kind = "event"))

\* main.py lines 87-90: the runner yields an event; the event here is the
\* answer of a peer agent, called through the client factory of the root
\* agent the runner was built over
HostRunEvent(i) ==
    /\ hpc[i] = "run"
    /\ RunEvents(i) < MaxRunEvents
    /\ \E peer \in {"monitor_agent", "websearch_agent"} :
         hout' = [hout EXCEPT ![i] =
                     Append(@, [kind |-> "event", peer |-> peer,
                                session_header |-> hrunner[i][peer].session_id,
                                agent |-> hrunner[i].serial])]
    /\ UNCHANGED <<root_agent, hpc, hreq, hlocal, hrunner, hresult, builds>>
    /\ UNCHANGED <<monVars, execVars, memVars>>

\* main.py line 87: the run is over
HostRunEnd(i) ==
    /\ hpc[i] = "run"
    /\ hresult' = [hresult EXCEPT ![i] = "done"]
    /\ hpc' = [hpc EXCEPT ![i] = "ended"]
    /\ UNCHANGED <<root_agent, hreq, hlocal, hrunner, hout, builds>>
    /\ UNCHANGED <<monVars, execVars, memVars>>

\* the invocation is over: its generator and locals are gone
HostReturn(i) ==
    /\ hpc[i] = "ended"
    /\ hpc' = [hpc EXCEPT ![i] = "idle"]
    /\ hreq' = [hreq EXCEPT ![i] = NoInvocation]
    /\ hlocal' = [hlocal EXCEPT ![i] = NoneObj]
    /\ hrunner' = [hrunner EXCEPT ![i] = NoneObj]
    /\ hout' = [hout EXCEPT ![i] = <<>>]
    /\ hresult' = [hresult EXCEPT ![i] = None]
    /\ UNCHANGED <<root_agent, builds>>
    /\ UNCHANGED <<monVars, execVars, memVars>>

NextHost ==
    \E i \in Invocations :
         \/ HostStart(i)
         \/ HostResolveFirst(i)
         \/ HostResolveSecond(i)
         \/ HostQuery(i)
         \/ HostRunEvent(i)
         \/ HostRunEnd(i)
         \/ HostReturn(i)

\* ------------------------------------------------------- specifications
Init == InitMon /\ InitExec /\ InitMem /\ InitHost

Spec == Init /\ [][NextMon]_vars

SpecExec == Init /\ [][NextExec]_vars

SpecHooks == Init /\ [][NextHooks]_vars

SpecTools == Init /\ [][NextTools]_vars

SpecHost == Init /\ [][NextHost]_vars

\* ================================================================ claims
PastGate(r) == pc[r] \in {"call_next", "responding"}

StepCounts == {calls.hooks, calls.exchange, calls.start, calls.tools,
               calls.agent, calls.server}

LockQueue == {lock_waiters[i] : i \in DOMAIN lock_waiters}

\* C1: however the requests that carry a new session id interleave, the
\* initialization sequence is entered exactly once: never twice, every step
\* of it runs at most once, it has been entered once any request carrying a
\* session id is past the gate, and every step has run once when the session
\* is READY.
C1_SingleFlight ==
    /\ Len(initRuns) <= 1
    /\ \A k \in StepCounts : k <= 1
    /\ (\E r \in Requests : req[r].sid # None /\ PastGate(r))
          => Len(initRuns) = 1
    /\ SessionState = "READY" => StepCounts = {1}

\* two requests with the same session id raced for the lock: one has built
\* the server, the other waited and found the session recorded
C1_Witness ==
    \E r1, r2 \in Requests :
        /\ r1 # r2
        /\ req[r1].sid # None
        /\ req[r1].sid = req[r2].sid
        /\ local[r1].a2a_server # NoneObj
        /\ pc[r2] = "call_next"
        /\ lock_holder = r2

\* C2: after an initialization that raised, the session is UNSEEN again: no
\* session id is recorded and no hooks, gateway client, agent or server of
\* the failed attempt stay cached.
C2_FailedInitLeavesUnseen ==
    (initFailed /\ \A r \in Requests : pc[r] \notin InitSteps)
       => /\ cls.session_id = None
          /\ cls.monitoring_hooks = NoneObj
          /\ cls.gateway_client = NoneObj
          /\ cls.agent = NoneObj
          /\ cls.a2a_server = NoneObj

EmittedByExecute(e) ==
    \/ e.kind = "artifact"
    \/ e.kind = "status" /\ e.state \in {"working", "completed"}

LastState(t) ==
    LET idx == {i \in DOMAIN events[t] : events[t][i].kind \in {"status", "task"}}
    IN IF idx = {} THEN None
       ELSE events[t][CHOOSE i \in idx : \A j \in idx : j <= i].state

\* C3: once cancel has cleared the active flag of a task in mid-stream (a
\* working update has gone out and the stream has not ended), execute puts no
\* further working update, artifact or completed status on the queue, and
\* the last recorded state is not completed.
C3_NoOutputAfterCancel ==
    \A t \in Tasks :
        (flagCleared[t] /\ emittedAtClear[t] > startLen[t]) =>
            /\ \A i \in (emittedAtClear[t] + 1)..Len(events[t]) :
                   ~EmittedByExecute(events[t][i])
            /\ LastState(t) # "completed"

RECURSIVE Cumulative(_, _)
Cumulative(fs, i) == IF i = 0 THEN "" ELSE Cumulative(fs, i - 1) \o fs[i]

ExpectedEvents(fs) ==
    [i \in 1..(Len(fs) + 2) |->
        IF i <= Len(fs) THEN StatusEvent("working", Cumulative(fs, i))
        ELSE IF i = Len(fs) + 1 THEN ArtifactEvent(Cumulative(fs, Len(fs)))
        ELSE StatusEvent("completed", "")]

Uncancelled(t) == cancels[t] = 0

IsTerminal(e) == e.kind = "status" /\ e.state \in TerminalStates

\* C5: for every task at most one terminal status (completed, failed or
\* cancelled) is ever put on the queue, and no status update follows it.
C5_TerminalOnce ==
    \A t \in Tasks :
        \A i \in DOMAIN events[t] :
            IsTerminal(events[t][i]) =>
                \A j \in DOMAIN events[t] :
                    j > i => events[t][j].kind # "status"

\* C6: a request that is not the liveness probe is answered 503 when the
\* session is not READY as the proxy handler runs and is forwarded to the
\* A2A server of the session when it is READY; the request whose middleware
\* pass built the A2A server is itself forwarded.
C6_ProxyGate ==
    /\ [][\A r \in Requests :
            (pc[r] = "call_next" /\ pc'[r] = "responding" /\ ~IsPing(req'[r]))
              => IF SessionState = "READY"
                 THEN response'[r] = "forwarded"
                      /\ servedBy'[r] = cls.a2a_server
                 ELSE response'[r] = "503"]_vars
    /\ [](\A r \in Requests :
            (pc[r] = "responding" /\ local[r].a2a_server # NoneObj
               /\ ~IsPing(req[r]))
              => response[r] = "forwarded")

\* the request that completed the initialization has been forwarded
C6_Witness ==
    \E r \in Requests :
        /\ pc[r] = "responding"
        /\ local[r].a2a_server # NoneObj
        /\ ~IsPing(req[r])
        /\ response[r] = "forwarded"

\* C7: every request for the liveness probe is answered with the success
\* payload, in every state of the session and whatever headers it carries.
C7_PingAlwaysHealthy ==
    \A r \in Requests :
        (pc[r] = "responding" /\ IsPing(req[r])) => response[r] = ping

HooksServing(r) == servedBy[r].agent.hooks

C9_Monotonic ==
    [][SessionState = "READY"
         => /\ cls'.session_id = cls.session_id
            /\ cls'.monitoring_hooks = cls.monitoring_hooks
            /\ cls'.gateway_client = cls.gateway_client
            /\ cls'.agent = cls.agent
            /\ cls'.a2a_server = cls.a2a_server
            /\ calls' = calls
            /\ initRuns' = initRuns]_vars

\* a later request with the session id of the READY session was forwarded
C9_Witness ==
    \E r \in Requests :
        /\ arrivedReady[r]
        /\ req[r].sid = cls.session_id
        /\ pc[r] = "responding"
        /\ response[r] = "forwarded"

\* C10: a request that finds the session READY goes downstream without
\* taking the initialization lock or queueing on it.
C10_ReadyBypassesLock ==
    \A r \in Requests :
        arrivedReady[r] =>
            /\ PastGate(r)
            /\ lock_holder # r
            /\ r \notin LockQueue

\* a request that found the session READY was answered while another
\* request held the lock
C10_Witness ==
    \E r \in Requests :
        /\ arrivedReady[r]
        /\ req[r].sid # None
        /\ pc[r] = "responding"
        /\ lock_holder \in Requests \ {r}

HookOps == {"pre", "post", "init"}

\* C12: a run of the pre-turn, post-turn or on-init hook in which a call to
\* the memory client raised does not raise to its caller, leaves the system
\* prompt as it was and leaves the transcript as it was (for the pre-turn
\* hook: the transcript with the added message, its text untouched).
C12_HooksDegrade ==
    [][(last_call'.op \in HookOps /\ last_call'.client_raised)
         => /\ ~last_call'.raised
            /\ system_prompt' = system_prompt
            /\ messages' = IF last_call'.op = "pre"
                           THEN Append(messages, last_call'.arg)
                           ELSE messages]_vars

\* the retrieval for the second namespace raised after the first namespace
\* had returned a memory
C12_Witness ==
    /\ last_call.op = "pre"
    /\ last_call.client_raised
    /\ Len(last_call.retrievals) = 2
    /\ last_call.found = 1

\* the final assistant reply is preceded, back to the previous assistant
\* message or the start of the transcript, by tool results only
LastExchangeUnpaired(msgs) ==
    LET n == Len(msgs)
    IN /\ n >= 2
       /\ msgs[n].role = "assistant" /\ msgs[n].kind = "text"
       /\ \E p \in 0..(n - 2) :
            /\ p = 0 \/ msgs[p].role = "assistant"
            /\ \A j \in (p + 1)..(n - 1) :
                 msgs[j].role = "user" /\ msgs[j].kind = "toolResult"

\* C13: the post-turn hook calls create_event for no transcript whose last
\* exchange has no user text message of its own.
C13_NoSaveWithoutUserText ==
    (last_call.op = "post" /\ LastExchangeUnpaired(messages))
       => last_call.creates = <<>>

\* C14: whenever no execute call is in progress the active-task table is
\* empty.
C14_TableEmptyWhenIdle ==
    (\A t \in Tasks : epc[t] = "idle") => DOMAIN active_tasks = {}

\* C15: an execute call that ended with the internal-error signal has put
\* the failed status of the task on the queue.
C15_FailedOnInternalError ==
    \A t \in Tasks :
        (epc[t] = "idle" /\ outcome[t] = "InternalError")
          => \E i \in (execLen[t] + 1)..Len(events[t]) :
                 events[t][i].kind = "status" /\ events[t][i].state = "failed"

\* C16: an execute call for a request without session id or without user
\* message ends with the invalid-parameters error, has invoked no agent and
\* has put no task, status update or artifact on the queue.
C16_InvalidParamsNoEffect ==
    \A t \in Tasks :
        (epc[t] = "idle" /\ executions[t] > 0
           /\ (~einput[t].has_session \/ ~einput[t].has_message))
          => /\ outcome[t] = "InvalidParamsError"
             /\ yielded[t] = 0
             /\ \A i \in (execLen[t] + 1)..Len(events[t]) :
                    /\ events[t][i].kind # "task"
                    /\ ~EmittedByExecute(events[t][i])

\* C17: a cancel call whose context holds no task object changes neither
\* the event queue nor the executor's state, the active-task table included.
C17_CancelUnknownNoop ==
    [][\A t \in Tasks :
          (cancels'[t] = cancels[t] + 1 /\ cpc'[t] = "idle")
            => /\ events' = events
               /\ active_tasks' = active_tasks
               /\ exec_agent' = exec_agent]_vars

\* C18: every create_event call carries exactly one USER message followed
\* by exactly one ASSISTANT message.
C18_TurnSetShape ==
    \A i \in DOMAIN last_call.creates :
        LET turn == last_call.creates[i]
        IN Len(turn) = 2 /\ turn[1].role = "USER" /\ turn[2].role = "ASSISTANT"

Authenticated(gw) ==
    \/ gw = NoneObj
    \/ /\ gw.kind = "gw"
       /\ gw.workload_token \in Tokens
       /\ gw.bearer = <<"accessToken", gw.workload_token>>

\* C19: every gateway client that exists carries the bearer token of a
\* successful exchange of a workload identity token, no client is started
\* without such an exchange, and a request whose create_gateway_client call
\* fails (no identity token known, or the exchange raises) is answered with
\* the failure while no gateway client is created, started or stored.
C19_NoUnauthenticatedGateway ==
    /\ [](/\ Authenticated(cls.gateway_client)
          /\ \A r \in Requests : /\ Authenticated(local[r].gateway_client)
                                 /\ Authenticated(ctxv[r].gateway_client)
          /\ calls.start <= calls.exchange)
    /\ [][\A r \in Requests :
            /\ (pc[r] = "gateway" /\ get_agent_identity_token(Mac, r) = None)
                 => pc'[r] \in {"gateway", "responding"}
            /\ (pc[r] = "gateway" /\ pc'[r] = "responding")
                 => /\ response'[r] = "500"
                    /\ local'[r].gateway_client = NoneObj
                    /\ cls'.gateway_client = cls.gateway_client
                    /\ calls' = calls]_vars

\* a request without identity token has failed in create_gateway_client and
\* no gateway client exists
C19_Witness ==
    \E r \in Requests :
        /\ pc[r] = "responding" /\ response[r] = "500"
        /\ get_agent_identity_token(Mac, r) = None
        /\ local[r].monitoring_hooks # NoneObj
        /\ cls.gateway_client = NoneObj
        /\ calls.exchange = 0 /\ calls.start = 0

NotFoundResults ==
    {"Invalid namespace type. Available types: "
        \o Join(", ", KeyList(namespaces)),
     "No relevant context found for the query."}

\* C20: a retrieve_monitoring_context or search_memory_by_namespace call
\* that names a type absent from the namespace map calls retrieve_memories
\* for no namespace and ends in a not-found result.
C20_UnknownTypeNoRetrieval ==
    (last_call.op \in {"retrieve", "search"} /\ Truthy(last_call.arg)
       /\ last_call.arg \notin TypesOf(namespaces))
      => /\ last_call.retrievals = <<>>
         /\ last_call.result \in NotFoundResults

\* the texts the memory returned, stripped, without the empty ones, each
\* behind the label of the strategy type of its namespace
RECURSIVE Labelled(_)
Labelled(returned) ==
    IF returned = <<>> THEN <<>>
    ELSE LET r == Head(returned)
             kept == SelectSeq(r.memories, LAMBDA x : Strip(x) # "")
         IN [i \in DOMAIN kept |-> "[" \o Upper(r.type) \o "] " \o Strip(kept[i])]
              \o Labelled(Tail(returned))

ContextBlock(returned) ==
    "Monitoring Context:\n" \o Join("\n", Labelled(returned)) \o "\n\n"

WithContext(msgs, m, returned) ==
    Append(msgs, [m EXCEPT !.text = ContextBlock(returned) \o m.text])

Retrievable(m) == m.role = "user" /\ m.kind # "toolResult"

\* C21 as stated: when a message is added, the pre-turn hook rewrites it
\* exactly when it is a user message that is not a tool result and some
\* namespace returned a non-empty text; the new text is then the labelled
\* block followed by the original text; otherwise the transcript is the old
\* one with the message added as it came.
C21_InjectWhenFound ==
    [][last_call'.op = "pre" =>
         LET m == last_call'.arg
         IN IF Retrievable(m) /\ Labelled(last_call'.returned) # <<>>
            THEN messages' = WithContext(messages, m, last_call'.returned)
            ELSE messages' = Append(messages, m)]_vars

\* C21 amended: the message is rewritten exactly when, in addition, no
\* retrieval raised; a retrieval that raises for a later namespace leaves
\* the message as it came although earlier namespaces returned texts.
C21_InjectWhenFoundAndNoFailure ==
    [][last_call'.op = "pre" =>
         LET m == last_call'.arg
         IN IF /\ Retrievable(m)
               /\ Labelled(last_call'.returned) # <<>>
               /\ ~last_call'.client_raised
            THEN /\ messages' = WithContext(messages, m, last_call'.returned)
                 /\ messages'[Len(messages')].text # m.text
            ELSE messages' = Append(messages, m)]_vars

\* both namespaces returned a text and the user message carries the block
C21_Witness ==
    /\ last_call.op = "pre"
    /\ ~last_call.client_raised
    /\ last_call.found = 2
    /\ messages[Len(messages)].text =
         "Monitoring Context:\n[USERPREFERENCE] cpu high\n"
            \o "[SEMANTICMEMORY] cpu high\n\nq1"

\* C22: the on-init hook asks for the last 5 turns; a non-empty history is
\* appended to the system prompt, one "role: text" line per message in the
\* order returned; an empty history leaves the prompt as it was; the hook
\* does not raise and does not touch the transcript.
C22_HistoryAppended ==
    [][(last_call'.op = "init" /\ last_call.op # "init") =>
         /\ last_call'.arg = 5
         /\ ~last_call'.raised
         /\ messages' = messages
         /\ system_prompt' =
              IF last_call'.found > 0
              THEN system_prompt \o "\n\nRecent conversation:\n"
                     \o "USER: q0\nASSISTANT: a0\nUSER: q9\nASSISTANT: a9"
              ELSE system_prompt]_vars

\* the history of two turns has been appended to the system prompt
C22_Witness ==
    /\ last_call.op = "init"
    /\ last_call.found = 2
    /\ system_prompt # BasePrompt

ByExecute(t) == SelectSeq(events[t], EmittedByExecute)

\* C23: among the events execute puts on the queue, every completed status
\* comes directly after an artifact.
C23_ArtifactBeforeCompleted ==
    \A t \in Tasks :
        \A i \in DOMAIN ByExecute(t) :
            ByExecute(t)[i].state = "completed"
              => i > 1 /\ ByExecute(t)[i - 1].kind = "artifact"

Resolving == {"resolve1", "resolve2"}

\* C24: no two invocations build and resolve a root agent at the same time,
\* and all running invocations run over the same root agent.
C24_RootAgentBuiltOnce ==
    /\ \A i, j \in Invocations :
         (hpc[i] \in Resolving /\ hpc[j] \in Resolving) => i = j
    /\ \A i, j \in Invocations :
         (hrunner[i] # NoneObj /\ hrunner[j] # NoneObj)
           => hrunner[i] = hrunner[j]

\* C25: an execute that marked its task active after a finished cancel had
\* cleared the flag of that task emits no working update, no artifact and
\* no completed status.
C25_EarlyCancelKept ==
    \A t \in Tasks :
        preCancelled[t] =>
            \A i \in (startLen[t] + 1)..Len(events[t]) :
                ~EmittedByExecute(events[t][i])

\* C26: the identity token a request exchanges in create_gateway_client is
\* the token that request carried.
C26_OwnTokenExchanged ==
    [][\A r \in Requests :
          (pc[r] = "gateway" /\ pc'[r] = "start")
            => local'[r].gateway_client.workload_token = req[r].tok]_vars

\* C27: every call to a peer agent made while an invocation is served
\* carries the session id of that invocation.
C27_PeerCallsOwnSession ==
    \A i \in Invocations :
        \A k \in DOMAIN hout[i] :
            hout[i][k].kind = "event"
              => hout[i][k].session_header = hreq[i].session_id

UserTexts == {m.text : m \in {x \in TranscriptMessages : x.role = "user"}}

\* C28: the user text of every turn the post-turn hook persists is a text
\* as the user sent it, without the injected context block.
C28_OriginalTextSaved ==
    last_call.op = "post" =>
        \A k \in DOMAIN last_call.creates :
            last_call.creates[k][1].text \in UserTexts

C30_FailedInitRetried ==
    /\ [](\A i \in Invocations :
            hresult[i] = "init_raised"
              => hout[i] = <<>> /\ hrunner[i] = NoneObj /\ hpc[i] = "ended")
    /\ [][\A i \in Invocations :
            /\ (hresult'[i] = "init_raised" /\ hresult[i] # "init_raised")
                 => root_agent' = root_agent
            /\ (hpc[i] = "idle" /\ hpc'[i] # "idle" /\ root_agent = NoneObj
                  /\ hreq'[i].session_id # None)
                 => builds' = builds + 1]_vars

\* an invocation that started after a failed initialization, with
\* root_agent still unset, has built and set the root agent
C30_Witness ==
    \E i \in Invocations :
        /\ hreq[i].after_failure
        /\ hlocal[i] # NoneObj
        /\ root_agent = hlocal[i]
        /\ hout[i] = <<[kind |-> "cards"]>>

====
